---- MODULE Spec2Model ----
(***************************************************************************)
(* Verification model of the two GAN scripts of the repository:            *)
(*   src/face_app/model.py   (Age-cGAN)                                    *)
(*   src/stack_gan/model.py  (StackGAN)                                    *)
(*                                                                         *)
(* Three aspects of the scripts are modelled, each with its own            *)
(* specification over the same variables:                                  *)
(*   Spec       the discriminator's `trainable` flag through the           *)
(*              adversarial builders, the compile calls and the training   *)
(*              steps that follow them;                                    *)
(*   SpecGraph  the layer graphs: every tensor carries its shape and the   *)
(*              set of inputs and layer parameters it is computed from;    *)
(*   SpecAge    compute_age and load_data.                                 *)
(*                                                                         *)
(* The scripts misspell several library and local names (LeakyRelu, Relu,  *)
(* Upsampling2D, lambda(...), tf.keras.math.exp, conact, meta, images).    *)
(* The model reads each of them as the object the statement evidently      *)
(* names; everything else (which variable a layer is applied to, the       *)
(* layer arguments, the order of the statements) is taken as written.      *)
(***************************************************************************)
EXTENDS Integers, Sequences, FiniteSets, TLC

VARIABLES
    \* ---- trainable-flag protocol (Spec)
    pipeline,      \* "age" (face_app main) or "stack" (stack_gan build_adversarial)
    pc,            \* position in the script
    trainable,     \* discriminator.trainable
    compiled,      \* per model: compiled yet, and the discriminator flag recorded then
    atWire,        \* the flag when the discriminator was called inside the builder
    atReturn,      \* the flag when the builder returned
    wG, wD,        \* versions of the generator's / discriminator's weights
    steps,         \* training steps taken
    lastStep,      \* the last training step and the discriminator version before it
    \* ---- layer graphs (SpecGraph)
    x,             \* a feature map handed to the helper blocks
    v,             \* a vector handed to conditioning_augmentation / concat_along_dims
    call,          \* the function applied last
    ret,           \* what it returned
    \* ---- age computation (SpecAge)
    metadata,      \* the rows of wiki.mat: full_path, dob, photo_taken
    images,        \* load_data's first result
    ages_list,     \* load_data's second result
    loaded         \* load_data has returned

trainVars == <<pipeline, pc, trainable, compiled, atWire, atReturn, wG, wD, steps, lastStep>>
graphVars == <<x, v, call, ret>>
ageVars   == <<metadata, images, ages_list, loaded>>
vars      == <<trainVars, graphVars, ageVars>>

(***************************************************************************)
(* Part 1.  The trainable flag                                             *)
(***************************************************************************)

\* Training steps a run may take.
MaxSteps == 3

Models == {"generator", "discriminator", "adversarial"}

NotCompiled == [done |-> FALSE, disTrainable |-> FALSE]
Unset       == [done |-> FALSE, flag |-> FALSE]
NoStep      == [kind |-> "none", wDBefore |-> 0]

\* Model.compile: Keras records the trainable state of every layer the model
\* holds; the training function built from it updates exactly those weights.
Compile(m) ==
    compiled' = [compiled EXCEPT ![m] = [done |-> TRUE, disTrainable |-> trainable]]

TrainIdle ==
    /\ trainable = TRUE
    /\ compiled = [m \in Models |-> NotCompiled]
    /\ atWire = Unset
    /\ atReturn = Unset
    /\ wG = 0
    /\ wD = 0
    /\ steps = 0
    /\ lastStep = NoStep

AgeIdle ==
    /\ metadata = <<>> /\ images = <<>> /\ ages_list = <<>> /\ loaded = FALSE

\* ---- face_app: main, lines 227-234, and adversarial, lines 190-201

Main_Generator ==
    /\ pipeline = "age" /\ pc = "l227"
    /\ pc' = "l228"
    /\ UNCHANGED <<graphVars, ageVars, pipeline, trainable, compiled, atWire, atReturn, wG, wD, steps, lastStep>>

Main_GeneratorCompile ==
    /\ pipeline = "age" /\ pc = "l228"
    /\ Compile("generator")
    /\ pc' = "l230"
    /\ UNCHANGED <<graphVars, ageVars, pipeline, trainable, atWire, atReturn, wG, wD, steps, lastStep>>

Main_Discriminator ==
    /\ pipeline = "age" /\ pc = "l230"
    /\ trainable' = TRUE
    /\ pc' = "l231"
    /\ UNCHANGED <<graphVars, ageVars, pipeline, compiled, atWire, atReturn, wG, wD, steps, lastStep>>

Main_DiscriminatorCompile ==
    /\ pipeline = "age" /\ pc = "l231"
    /\ Compile("discriminator")
    /\ pc' = "l233"
    /\ UNCHANGED <<graphVars, ageVars, pipeline, trainable, atWire, atReturn, wG, wD, steps, lastStep>>

Main_CallAdversarial ==
    /\ pipeline = "age" /\ pc = "l233"
    /\ pc' = "l196"
    /\ UNCHANGED <<graphVars, ageVars, pipeline, trainable, compiled, atWire, atReturn, wG, wD, steps, lastStep>>

Adv_Freeze ==
    /\ pipeline = "age" /\ pc = "l196"
    /\ trainable' = FALSE
    /\ pc' = "l197"
    /\ UNCHANGED <<graphVars, ageVars, pipeline, compiled, atWire, atReturn, wG, wD, steps, lastStep>>

Adv_WireGenerator ==
    /\ pipeline = "age" /\ pc = "l197"
    /\ pc' = "l198"
    /\ UNCHANGED <<graphVars, ageVars, pipeline, trainable, compiled, atWire, atReturn, wG, wD, steps, lastStep>>

Adv_WireDiscriminator ==
    /\ pipeline = "age" /\ pc = "l198"
    /\ atWire' = [done |-> TRUE, flag |-> trainable]
    /\ pc' = "l200"
    /\ UNCHANGED <<graphVars, ageVars, pipeline, trainable, compiled, atReturn, wG, wD, steps, lastStep>>

Adv_Restore ==
    /\ pipeline = "age" /\ pc = "l200"
    /\ trainable' = TRUE
    /\ pc' = "l201"
    /\ UNCHANGED <<graphVars, ageVars, pipeline, compiled, atWire, atReturn, wG, wD, steps, lastStep>>

Adv_Return ==
    /\ pipeline = "age" /\ pc = "l201"
    /\ atReturn' = [done |-> TRUE, flag |-> trainable]
    /\ pc' = "l234"
    /\ UNCHANGED <<graphVars, ageVars, pipeline, trainable, compiled, atWire, wG, wD, steps, lastStep>>

Main_AdversarialCompile ==
    /\ pipeline = "age" /\ pc = "l234"
    /\ Compile("adversarial")
    /\ pc' = "train"
    /\ UNCHANGED <<graphVars, ageVars, pipeline, trainable, atWire, atReturn, wG, wD, steps, lastStep>>

\* ---- stack_gan: build_adversarial, lines 187-208.  The file has no driver:
\* the caller compiles the models it is given and built, in any order.

BA_WireGenerator ==
    /\ pipeline = "stack" /\ pc = "l201"
    /\ pc' = "l203"
    /\ UNCHANGED <<graphVars, ageVars, pipeline, trainable, compiled, atWire, atReturn, wG, wD, steps, lastStep>>

BA_Freeze ==
    /\ pipeline = "stack" /\ pc = "l203"
    /\ trainable' = FALSE
    /\ pc' = "l205"
    /\ UNCHANGED <<graphVars, ageVars, pipeline, compiled, atWire, atReturn, wG, wD, steps, lastStep>>

BA_WireDiscriminator ==
    /\ pipeline = "stack" /\ pc = "l205"
    /\ atWire' = [done |-> TRUE, flag |-> trainable]
    /\ pc' = "l207"
    /\ UNCHANGED <<graphVars, ageVars, pipeline, trainable, compiled, atReturn, wG, wD, steps, lastStep>>

BA_Return ==
    /\ pipeline = "stack" /\ pc = "l207"
    /\ atReturn' = [done |-> TRUE, flag |-> trainable]
    /\ pc' = "train"
    /\ UNCHANGED <<graphVars, ageVars, pipeline, trainable, compiled, atWire, wG, wD, steps, lastStep>>

Caller_Compile ==
    /\ pipeline = "stack"
    /\ \E m \in Models :
        /\ ~compiled[m].done
        /\ m = "adversarial" => atReturn.done
        /\ Compile(m)
    /\ UNCHANGED <<graphVars, ageVars, pipeline, pc, trainable, atWire, atReturn, wG, wD, steps, lastStep>>

\* ---- the training steps both scripts leave to be written

\* One optimizer step of the adversarial composite (the generator's phase).
TrainAdversarial ==
    /\ pc = "train"
    /\ compiled["adversarial"].done
    /\ steps < MaxSteps
    /\ wG' = wG + 1
    /\ wD' = IF compiled["adversarial"].disTrainable THEN wD + 1 ELSE wD
    /\ steps' = steps + 1
    /\ lastStep' = [kind |-> "adversarial", wDBefore |-> wD]
    /\ UNCHANGED <<graphVars, ageVars, pipeline, pc, trainable, compiled, atWire, atReturn>>

\* One optimizer step of the discriminator on its own.
TrainDiscriminator ==
    /\ pc = "train"
    /\ compiled["discriminator"].done
    /\ steps < MaxSteps
    /\ wD' = IF compiled["discriminator"].disTrainable THEN wD + 1 ELSE wD
    /\ steps' = steps + 1
    /\ lastStep' = [kind |-> "discriminator", wDBefore |-> wD]
    /\ UNCHANGED <<graphVars, ageVars, pipeline, pc, trainable, compiled, atWire, atReturn, wG>>

(***************************************************************************)
(* Part 2.  The layer graphs                                               *)
(*                                                                         *)
(* A tensor is its shape without the batch axis, the set of graph inputs   *)
(* and layer parameters its value is computed from, and whether building   *)
(* it succeeded: a layer applied to a shape it does not accept raises, and *)
(* everything built from an error is an error.                             *)
(***************************************************************************)

Err == [ok |-> FALSE, shape |-> <<>>, deps |-> {}]

Tensor(shape, deps) == [ok |-> TRUE, shape |-> shape, deps |-> deps]

RECURSIVE Prod(_)
Prod(s) == IF s = <<>> THEN 1 ELSE Head(s) * Prod(Tail(s))

CeilDiv(a, b) == (a + b - 1) \div b

\* keras.Input(shape=...)
Input(shape, name) == Tensor(shape, {name})

\* Dense(units): acts on the last axis.
Dense(t, units, id) ==
    IF t.ok /\ Len(t.shape) >= 1
    THEN Tensor([t.shape EXCEPT ![Len(t.shape)] = units], t.deps \cup {id})
    ELSE Err

\* One spatial axis of a convolution: 'same' gives ceil(n / stride), 'valid'
\* gives floor((n - kernel) / stride) + 1 and needs n >= kernel.
ConvOut(n, kernel, strides, padding) ==
    IF padding = "same" THEN CeilDiv(n, strides)
    ELSE IF n >= kernel THEN ((n - kernel) \div strides) + 1
    ELSE 0

Conv2D(t, filters, kernel, strides, padding, id) ==
    IF t.ok /\ Len(t.shape) = 3
       /\ ConvOut(t.shape[1], kernel, strides, padding) > 0
       /\ ConvOut(t.shape[2], kernel, strides, padding) > 0
    THEN Tensor(<<ConvOut(t.shape[1], kernel, strides, padding),
                  ConvOut(t.shape[2], kernel, strides, padding),
                  filters>>, t.deps \cup {id})
    ELSE Err

ZeroPadding2D(t, padding) ==
    IF t.ok /\ Len(t.shape) = 3
    THEN Tensor(<<t.shape[1] + 2 * padding, t.shape[2] + 2 * padding, t.shape[3]>>, t.deps)
    ELSE Err

UpSampling2D(t, size) ==
    IF t.ok /\ Len(t.shape) = 3
    THEN Tensor(<<t.shape[1] * size, t.shape[2] * size, t.shape[3]>>, t.deps)
    ELSE Err

BatchNormalization(t, id) ==
    IF t.ok THEN Tensor(t.shape, t.deps \cup {id}) ELSE Err

\* Relu, LeakyRelu, Activation('tanh' | 'sigmoid'), Dropout: elementwise.
Activation(t) == t

Reshape(t, target) ==
    IF t.ok /\ Prod(t.shape) = Prod(target) THEN Tensor(target, t.deps) ELSE Err

Flatten(t) ==
    IF t.ok THEN Tensor(<<Prod(t.shape)>>, t.deps) ELSE Err

\* Concatenate / concatenate / K.concatenate of two tensors.  `axis` counts the
\* batch axis as 0, so it is the position in the shape kept here; -1 is the last.
Concatenate(a, b, axis) ==
    LET ax == IF axis = -1 THEN Len(a.shape) ELSE axis
    IN  IF a.ok /\ b.ok /\ Len(a.shape) = Len(b.shape)
           /\ ax \in 1..Len(a.shape)
           /\ \A i \in 1..Len(a.shape) : i # ax => a.shape[i] = b.shape[i]
        THEN Tensor([a.shape EXCEPT ![ax] = a.shape[ax] + b.shape[ax]], a.deps \cup b.deps)
        ELSE Err

\* add([a, b])
Add(a, b) ==
    IF a.ok /\ b.ok /\ a.shape = b.shape THEN Tensor(a.shape, a.deps \cup b.deps) ELSE Err

\* K.expand_dims(t, axis), axis >= 1 counted with the batch axis.
ExpandDims(t, axis) ==
    IF t.ok /\ axis \in 1..(Len(t.shape) + 1)
    THEN Tensor(SubSeq(t.shape, 1, axis - 1) \o <<1>> \o SubSeq(t.shape, axis, Len(t.shape)),
                t.deps)
    ELSE Err

\* K.tile(t, n): n holds one multiple per axis of t, the batch axis included.
Tile(t, n) ==
    IF t.ok /\ Len(n) = Len(t.shape) + 1
    THEN Tensor([i \in 1..Len(t.shape) |-> t.shape[i] * n[i + 1]], t.deps)
    ELSE Err

\* The columns a Python slice lo:hi takes of a row of the given width.
SliceCols(width, lo, hi) == {i \in 0..(width - 1) : lo <= i /\ i < hi}

\* a + b, a * b with broadcasting along the one kept axis.
Broadcast(a, b) ==
    IF a.ok /\ b.ok /\ Len(a.shape) = 1 /\ Len(b.shape) = 1
       /\ (a.shape[1] = b.shape[1] \/ a.shape[1] = 1 \/ b.shape[1] = 1)
    THEN Tensor(<<IF a.shape[1] = 1 THEN b.shape[1] ELSE a.shape[1]>>, a.deps \cup b.deps)
    ELSE Err

\* Calling a built Model on tensors: their shapes must be those of its Inputs.
CallModel(model, args) ==
    IF /\ Len(args) = Len(model.inputs)
       /\ \A i \in 1..Len(args) : args[i].ok /\ args[i].shape = model.inputs[i].shape
       /\ \A i \in 1..Len(model.outputs) : model.outputs[i].ok
    THEN LET own == UNION {model.inputs[j].deps : j \in 1..Len(args)}
         IN  [i \in 1..Len(model.outputs) |->
                Tensor(model.outputs[i].shape,
                       (model.outputs[i].deps \ own)
                       \cup UNION {args[j].deps : j \in {k \in 1..Len(args) :
                                      model.inputs[k].deps \cap model.outputs[i].deps # {}}})]
    ELSE [i \in 1..Len(model.outputs) |-> Err]

GraphIdle ==
    /\ x = Err /\ v = Err /\ call = "none" /\ ret = Err

\* ---- src/stack_gan/model.py

\* mean_cols with the slice ending one column early.
mean_cols_short(t) == SliceCols(t.shape[1], 0, 127)

\* mean = x[:, :128] and log_sigma = x[:, 128:]: the columns each one takes.
mean_cols(t) == SliceCols(t.shape[1], 0, 128)

log_sigma_cols(t) == SliceCols(t.shape[1], 128, t.shape[1])

\* The columns `cols` of a batch of vectors.
Take(t, cols) == Tensor(<<Cardinality(cols)>>, t.deps)

conditioning_augmentation(t) ==
    IF t.ok /\ Len(t.shape) = 1
    THEN LET mean      == Take(t, mean_cols(t))
             log_sigma == Take(t, log_sigma_cols(t))
             stddev    == Activation(log_sigma)
             epsilon   == Tensor(<<mean.shape[1]>>, {"epsilon"})
             c         == Broadcast(mean, Broadcast(stddev, epsilon))
         IN  c
    ELSE Err

build_ca_model ==
    LET input_layer == Input(<<1024>>, "input_layer")
        x1 == Dense(input_layer, 256, "Dense@50")
        x2 == Activation(x1)
        c  == conditioning_augmentation(x2)
    IN  [name |-> "ca_model", inputs |-> <<input_layer>>, outputs |-> <<c>>,
         c |-> c, projected |-> x2]

\* UpSamplingBlock with the convolution's padding left at the layer's default.
UpSamplingBlock_valid(t, num_kernels) ==
    LET x1 == UpSampling2D(t, 2)
        x2 == Conv2D(x1, num_kernels, 3, 1, "valid", "Conv2D@72")
        x3 == BatchNormalization(x2, "BatchNormalization@73")
        x4 == Activation(x3)
    IN  x4

UpSamplingBlock(t, num_kernels) ==
    LET x1 == UpSampling2D(t, 2)
        x2 == Conv2D(x1, num_kernels, 3, 1, "same", "Conv2D@72")
        x3 == BatchNormalization(x2, "BatchNormalization@73")
        x4 == Activation(x3)
    IN  x4

build_stage1_generator ==
    LET input_layer1 == Input(<<1024>>, "input_layer1")
        ca1 == Dense(input_layer1, 256, "Dense@84")
        ca  == Activation(ca1)
        c   == conditioning_augmentation(ca)
        input_layer2 == Input(<<100>>, "input_layer2")
        concat == Concatenate(c, input_layer2, 1)
        x1 == Dense(concat, 16384, "Dense@93")
        x2 == Activation(x1)
        x3 == Reshape(x2, <<4, 4, 1024>>)
        x4 == UpSamplingBlock(x3, 512)
        x5 == UpSamplingBlock(x4, 256)
        x6 == UpSamplingBlock(x5, 128)
        x7 == UpSamplingBlock(x6, 64)
        x8 == Conv2D(x7, 3, 3, 1, "same", "Conv2D@102")
        x9 == Activation(x8)
    IN  [name |-> "stage1_gen", inputs |-> <<input_layer1, input_layer2>>,
         outputs |-> <<x9, ca>>,
         c |-> c, projected |-> ca, concat |-> concat, reshaped |-> x3,
         ups |-> <<x4, x5, x6, x7>>]

ConvBlock(t, num_kernels) ==
    LET x1 == Conv2D(t, num_kernels, 4, 2, "same", "Conv2D@123")
        x2 == BatchNormalization(x1, "BatchNormalization@124")
        x3 == Activation(x2)
    IN  x3

build_stage1_discriminator ==
    LET input_layer1 == Input(<<64, 64, 3>>, "input_layer1")
        xa == Conv2D(input_layer1, 64, 4, 2, "same", "Conv2D@137")
        xb == Activation(xa)
        xc == ConvBlock(xb, 128)
        xd == ConvBlock(xc, 256)
        xe == ConvBlock(xd, 512)
        input_layer2 == Input(<<4, 4, 128>>, "input_layer2")
        concat == Concatenate(xe, input_layer2, -1)
        x1a == Conv2D(concat, 512, 1, 1, "same", "Conv2D@148")
        x1b == BatchNormalization(xe, "BatchNormalization@149")
        x1c == Activation(xe)
        x1d == Flatten(x1c)
        x1e == Dense(x1d, 1, "Dense@154")
        x1f == Activation(x1e)
    IN  [name |-> "stage1_dis", inputs |-> <<input_layer1, input_layer2>>,
         outputs |-> <<x1f>>,
         features |-> xe, concat |-> concat, fused |-> x1a, flattened |-> x1d]

concat_along_dims(inputs) ==
    LET c0 == inputs[1]
        x0 == inputs[2]
        c1 == ExpandDims(c0, 1)
        c2 == Tile(c1, <<1, 16, 16, 1>>)
    IN  Concatenate(c2, x0, 3)

\* residual_block with the second convolution's padding left at the layer's default.
residual_block_valid(inputs) ==
    LET x4 == Conv2D(inputs, 512, 3, 1, "valid", "Conv2D@244")
        x5 == BatchNormalization(x4, "BatchNormalization@245")
        x6 == Add(x5, inputs)
        x7 == Activation(x6)
    IN  x7

residual_block(inputs) ==
    LET x1 == Conv2D(inputs, 512, 3, 1, "same", "Conv2D@240")
        x2 == BatchNormalization(x1, "BatchNormalization@241")
        x3 == Activation(x2)
        x4 == Conv2D(inputs, 512, 3, 1, "same", "Conv2D@244")
        x5 == BatchNormalization(x4, "BatchNormalization@245")
        x6 == Add(x5, inputs)
        x7 == Activation(x6)
    IN  x7

build_stage2_generator ==
    LET input_layer1 == Input(<<1024>>, "input_layer1")
        input_images == Input(<<64, 64, 3>>, "input_images")
        ca1 == Dense(input_layer1, 256, "Dense@262")
        ca  == Activation(ca1)
        c   == conditioning_augmentation(ca)
        d1 == ZeroPadding2D(input_images, 1)
        d2 == Conv2D(d1, 128, 3, 1, "valid", "Conv2D@268")
        d3 == Activation(d2)
        d4 == ZeroPadding2D(d3, 1)
        d5 == Conv2D(d4, 256, 4, 2, "valid", "Conv2D@272")
        d6 == BatchNormalization(d5, "BatchNormalization@273")
        d7 == Activation(d6)
        d8 == ZeroPadding2D(d7, 1)
        d9 == Conv2D(d8, 512, 4, 2, "valid", "Conv2D@277")
        d10 == BatchNormalization(d9, "BatchNormalization@278")
        d11 == Activation(d10)
        concat == concat_along_dims(<<c, d11>>)
        r1 == ZeroPadding2D(concat, 1)
        r2 == Conv2D(r1, 512, 3, 1, "same", "Conv2D@286")
        r3 == BatchNormalization(r2, "BatchNormalization@287")
        r4 == Activation(r3)
        r5 == residual_block(r4)
        r6 == residual_block(r5)
        r7 == residual_block(r6)
        r8 == residual_block(r7)
        u1 == UpSamplingBlock(r8, 512)
        u2 == UpSamplingBlock(u1, 256)
        u3 == UpSamplingBlock(u2, 128)
        u4 == UpSamplingBlock(u3, 64)
        o1 == Conv2D(u4, 3, 3, 1, "same", "Conv2D@301")
        o2 == Activation(o1)
    IN  [name |-> "stage2_gen", inputs |-> <<input_layer1, input_images>>,
         outputs |-> <<o2, ca>>,
         c |-> c, projected |-> ca, encoded |-> d11, concat |-> concat,
         pre_residual |-> r4, post_residual |-> r8]

build_adversarial(generator_model, discriminator_model) ==
    LET input_layer1 == Input(<<1024>>, "input_layer1")
        input_layer2 == Input(<<100>>, "input_layer2")
        input_layer3 == Input(<<4, 4, 128>>, "input_layer3")
        g == CallModel(generator_model, <<input_layer1, input_layer2>>)
        probabilities == CallModel(discriminator_model, <<g[1], input_layer3>>)
    IN  [name |-> "adversarial_model",
         inputs |-> <<input_layer1, input_layer2, input_layer3>>,
         outputs |-> <<probabilities[1], g[2]>>]

\* ---- src/face_app/model.py

generator ==
    LET latent_vector == Input(<<100>>, "latent_vector")
        conditioning_variable == Input(<<6>>, "conditioning_variable")
        x1 == Concatenate(latent_vector, conditioning_variable, -1)
        x2 == Dense(x1, 20148, "Dense@112")
        x3 == Activation(x2)
        x4 == Dense(x3, 16384, "Dense@116")
        x5 == BatchNormalization(x4, "BatchNormalization@117")
        x6 == Activation(x5)
        x7 == Reshape(x6, <<8, 8, 256>>)
        x8 == UpSampling2D(x7, 2)
        x9 == Conv2D(x8, 128, 5, 1, "same", "Conv2D@124")
        x10 == BatchNormalization(x9, "BatchNormalization@125")
        x11 == Activation(x10)
        x12 == UpSampling2D(x11, 2)
        x13 == Conv2D(x12, 64, 5, 1, "same", "Conv2D@129")
        x14 == BatchNormalization(x13, "BatchNormalization@130")
        x15 == Activation(x14)
        x16 == UpSampling2D(x15, 2)
        x17 == Conv2D(x16, 64, 5, 1, "same", "Conv2D@134")
        x18 == Activation(x17)
    IN  [name |-> "generator", inputs |-> <<latent_vector, conditioning_variable>>,
         outputs |-> <<x18>>, reshaped |-> x7]

expand_dims(label) ==
    LET l1 == ExpandDims(label, 1)
        l2 == ExpandDims(l1, 1)
    IN  Tile(l2, <<1, 32, 32, 1>>)

\* `label` is rebound at line 169, so the Model of line 187 is given the tiled
\* tensor, not the Input of line 164, as its second input.
discriminator ==
    LET image == Input(<<64, 64, 3>>, "image")
        label0 == Input(<<6>>, "label")
        x1 == Conv2D(image, 64, 3, 2, "same", "Conv2D@166")
        x2 == Activation(x1)
        label == expand_dims(label0)
        x3 == Concatenate(x2, label, 3)
        x4 == Conv2D(x3, 128, 3, 2, "same", "Conv2D@172")
        x5 == BatchNormalization(x4, "BatchNormalization@173")
        x6 == Activation(x5)
        x7 == Conv2D(x6, 256, 3, 2, "same", "Conv2D@176")
        x8 == BatchNormalization(x7, "BatchNormalization@177")
        x9 == Activation(x8)
        x10 == Conv2D(x9, 512, 3, 2, "same", "Conv2D@180")
        x11 == BatchNormalization(x10, "BatchNormalization@181")
        x12 == Activation(x11)
        x13 == Flatten(x12)
        x14 == Dense(x13, 1, "Dense@185")
    IN  [name |-> "discriminator", inputs |-> <<image, label>>, outputs |-> <<x14>>,
         image |-> image, label_input |-> label0, conv1 |-> x2, tiled |-> label,
         concat |-> x3]

adversarial(generator_model, discriminator_model) ==
    LET latent_space == Input(<<100>>, "latent_space")
        conditioning_variable == Input(<<6>>, "conditioning_variable")
        reconstructed == CallModel(generator_model, <<latent_space, conditioning_variable>>)
        valid == CallModel(discriminator_model, <<reconstructed[1], conditioning_variable>>)
    IN  [name |-> "adversarial", inputs |-> <<latent_space, conditioning_variable>>,
         outputs |-> <<valid[1]>>, reconstructed |-> reconstructed[1]]

\* ---- the graph functions applied to drawn arguments

\* Feature maps and vectors the helper blocks are tried on.
FeatureMaps ==
    {Tensor(<<h, w, c>>, {"inputs"}) : h \in {4, 16, 18}, w \in {4, 16, 18}, c \in {3, 512, 640}}

Vectors == {Tensor(<<n>>, {"x"}) : n \in {6, 100, 128, 255, 256, 257}}

GraphInit ==
    /\ pipeline = "none" /\ pc = "none"
    /\ TrainIdle
    /\ x \in FeatureMaps
    /\ v \in Vectors
    /\ call = "none"
    /\ ret = Err
    /\ AgeIdle

Call_conditioning_augmentation ==
    /\ call' = "conditioning_augmentation"
    /\ ret' = conditioning_augmentation(v)
    /\ UNCHANGED <<trainVars, ageVars, x, v>>

Call_build_ca_model ==
    /\ call' = "build_ca_model"
    /\ ret' = build_ca_model
    /\ UNCHANGED <<trainVars, ageVars, x, v>>

Call_UpSamplingBlock ==
    \E k \in {64, 128, 256, 512} :
        /\ call' = "UpSamplingBlock"
        /\ ret' = UpSamplingBlock(x, k)
        /\ UNCHANGED <<trainVars, ageVars, x, v>>

Call_build_stage1_generator ==
    /\ call' = "build_stage1_generator"
    /\ ret' = build_stage1_generator
    /\ UNCHANGED <<trainVars, ageVars, x, v>>

Call_ConvBlock ==
    \E k \in {128, 256, 512} :
        /\ call' = "ConvBlock"
        /\ ret' = ConvBlock(x, k)
        /\ UNCHANGED <<trainVars, ageVars, x, v>>

Call_build_stage1_discriminator ==
    /\ call' = "build_stage1_discriminator"
    /\ ret' = build_stage1_discriminator
    /\ UNCHANGED <<trainVars, ageVars, x, v>>

Call_build_adversarial ==
    /\ call' = "build_adversarial"
    /\ ret' = build_adversarial(build_stage1_generator, build_stage1_discriminator)
    /\ UNCHANGED <<trainVars, ageVars, x, v>>

Call_concat_along_dims ==
    /\ call' = "concat_along_dims"
    /\ ret' = concat_along_dims(<<v, x>>)
    /\ UNCHANGED <<trainVars, ageVars, x, v>>

Call_residual_block ==
    /\ call' = "residual_block"
    /\ ret' = residual_block(x)
    /\ UNCHANGED <<trainVars, ageVars, x, v>>

Call_build_stage2_generator ==
    /\ call' = "build_stage2_generator"
    /\ ret' = build_stage2_generator
    /\ UNCHANGED <<trainVars, ageVars, x, v>>

Call_generator ==
    /\ call' = "generator"
    /\ ret' = generator
    /\ UNCHANGED <<trainVars, ageVars, x, v>>

Call_expand_dims ==
    /\ call' = "expand_dims"
    /\ ret' = expand_dims(v)
    /\ UNCHANGED <<trainVars, ageVars, x, v>>

Call_discriminator ==
    /\ call' = "discriminator"
    /\ ret' = discriminator
    /\ UNCHANGED <<trainVars, ageVars, x, v>>

Call_adversarial ==
    /\ call' = "adversarial"
    /\ ret' = adversarial(generator, discriminator)
    /\ UNCHANGED <<trainVars, ageVars, x, v>>

GraphNext ==
    \/ Call_conditioning_augmentation
    \/ Call_build_ca_model
    \/ Call_UpSamplingBlock
    \/ Call_build_stage1_generator
    \/ Call_ConvBlock
    \/ Call_build_stage1_discriminator
    \/ Call_build_adversarial
    \/ Call_concat_along_dims
    \/ Call_residual_block
    \/ Call_build_stage2_generator
    \/ Call_generator
    \/ Call_expand_dims
    \/ Call_discriminator
    \/ Call_adversarial

(***************************************************************************)
(* Part 3.  compute_age and load_data (src/face_app/model.py)              *)
(*                                                                         *)
(* A dob is a MATLAB serial date number, which may carry a fraction of a   *)
(* day: it is kept here as the number of half days, dob2 = 2 * dob.        *)
(***************************************************************************)

\* int(dob): truncation toward zero.
int(dob2) == IF dob2 >= 0 THEN dob2 \div 2 ELSE -((-dob2) \div 2)

Max(a, b) == IF a >= b THEN a ELSE b

DaysBeforeMonthTable == <<0, 31, 59, 90, 120, 151, 181, 212, 243, 273, 304, 334>>

DaysInMonthTable == <<31, 28, 31, 30, 31, 30, 31, 31, 30, 31, 30, 31>>

\* datetime.fromordinal(n), n >= 1: the proleptic Gregorian date of day n, by
\* the 400 / 100 / 4 / 1 year cycle decomposition of the standard library.
fromordinal(ordinal) ==
    LET n0   == ordinal - 1
        n400 == n0 \div 146097
        r400 == n0 % 146097
        n100 == r400 \div 36524
        r100 == r400 % 36524
        n4   == r100 \div 1461
        r4   == r100 % 1461
        n1   == r4 \div 365
        n    == r4 % 365
        year == n400 * 400 + 1 + n100 * 100 + n4 * 4 + n1
        leapyear == n1 = 3 /\ (n4 # 24 \/ n100 = 3)
        month0 == (n + 50) \div 32
        preceding0 == DaysBeforeMonthTable[month0] + (IF month0 > 2 /\ leapyear THEN 1 ELSE 0)
        month == IF preceding0 > n THEN month0 - 1 ELSE month0
        preceding ==
            IF preceding0 > n
            THEN preceding0 - (DaysInMonthTable[month] + (IF month = 2 /\ leapyear THEN 1 ELSE 0))
            ELSE preceding0
    IN  IF n1 = 4 \/ n100 = 4
        THEN [year |-> year - 1, month |-> 12, day |-> 31]
        ELSE [year |-> year, month |-> month, day |-> n - preceding + 1]

\* compute_age with July counted among the first months.
compute_age_july(photo_date, dob2) ==
    LET birth == fromordinal(Max(int(dob2) - 366, 1))
    IN  IF birth.month <= 7
        THEN photo_date - birth.year
        ELSE photo_date - birth.year - 1

compute_age(photo_date, dob2) ==
    LET birth == fromordinal(Max(int(dob2) - 366, 1))
    IN  IF birth.month < 7
        THEN photo_date - birth.year
        ELSE photo_date - birth.year - 1

\* load_data's results for the arrays of wiki.mat.
load_data(meta) ==
    LET paths          == meta.full_path
        dob            == meta.dob
        photo_date     == meta.photo_taken
        calculated_age == [i \in 1..Len(dob) |-> compute_age(photo_date[i], dob[i])]
    IN  [images    |-> [i \in 1..Len(paths) |-> paths[i][1]],
         ages_list |-> [i \in 1..Len(paths) |-> calculated_age[i]]]

\* ---- the calendar, stated from the year and the month: the first ordinal of a month

IsLeap(y) == y % 4 = 0 /\ (y % 100 # 0 \/ y % 400 = 0)

DaysBeforeYear(y) == (y - 1) * 365 + (y - 1) \div 4 - (y - 1) \div 100 + (y - 1) \div 400

\* Days of month m of year y.
LastDay(y, m) ==
    IF m = 2 THEN (IF IsLeap(y) THEN 29 ELSE 28)
    ELSE IF m \in {4, 6, 9, 11} THEN 30 ELSE 31

RECURSIVE DaysBeforeMonth(_, _)
DaysBeforeMonth(y, m) ==
    IF m = 1 THEN 0
    ELSE DaysBeforeMonth(y, m - 1) + LastDay(y, m - 1)

Ordinal(y, m, d) == DaysBeforeYear(y) + DaysBeforeMonth(y, m) + d

\* ---- the inputs

BirthYears == {1900, 1996, 2000}

\* Rows of wiki.mat a load may hold.
MaxRows == 2

\* Birth dates: the first and the last day of every month.
BirthDates == {<<y, m, d>> : y \in BirthYears, m \in 1..12, d \in {1, 31}}

\* dob = ordinal + 366 at midnight, and at noon in one of the years; and a few
\* values at and below the clamp of max(..., 1).
Dobs ==
    {2 * (Ordinal(t[1], t[2], IF t[3] = 1 THEN 1 ELSE LastDay(t[1], t[2])) + 366)
        + (IF f = 1 /\ t[1] = 2000 THEN 1 ELSE 0) : t \in BirthDates, f \in {0, 1}}
    \cup {-3, 0, 1, 2 * 366, 2 * 367, 2 * 367 + 1, 2 * 368, 2 * (366 + 181), 2 * (366 + 182)}

PhotoYears == {1950, 2010}

\* The rows load_data is run on.
RowDobs == {2 * (Ordinal(2000, 6, 30) + 366) + 1, 2 * (Ordinal(2000, 7, 1) + 366)}

Paths == {<<"a.jpg">>, <<"b.jpg">>}

Metadata ==
    UNION {[full_path : [1..n -> Paths], dob : [1..n -> RowDobs], photo_taken : [1..n -> PhotoYears]]
           : n \in 0..MaxRows}

AgeInit ==
    /\ pipeline = "none" /\ pc = "none"
    /\ TrainIdle
    /\ x = Err /\ v = Err /\ call = "none" /\ ret = Err
    /\ metadata \in Metadata
    /\ images = <<>>
    /\ ages_list = <<>>
    /\ loaded = FALSE

Call_compute_age ==
    \E photo_date \in PhotoYears, dob2 \in Dobs :
        /\ call = "none"
        /\ call' = "compute_age"
        /\ ret' = [photo_date |-> photo_date, dob2 |-> dob2, age |-> compute_age(photo_date, dob2)]
        /\ UNCHANGED <<trainVars, x, v, ageVars>>

Call_load_data ==
    /\ ~loaded
    /\ images' = load_data(metadata).images
    /\ ages_list' = load_data(metadata).ages_list
    /\ loaded' = TRUE
    /\ UNCHANGED <<trainVars, graphVars, metadata>>

AgeNext ==
    \/ Call_compute_age
    \/ Call_load_data

Init ==
    /\ \/ pipeline = "age" /\ pc = "l227"
       \/ pipeline = "stack" /\ pc = "l201"
    /\ TrainIdle
    /\ GraphIdle
    /\ AgeIdle

Next ==
    \/ Main_Generator
    \/ Main_GeneratorCompile
    \/ Main_Discriminator
    \/ Main_DiscriminatorCompile
    \/ Main_CallAdversarial
    \/ Adv_Freeze
    \/ Adv_WireGenerator
    \/ Adv_WireDiscriminator
    \/ Adv_Restore
    \/ Adv_Return
    \/ Main_AdversarialCompile
    \/ BA_WireGenerator
    \/ BA_Freeze
    \/ BA_WireDiscriminator
    \/ BA_Return
    \/ Caller_Compile
    \/ TrainAdversarial
    \/ TrainDiscriminator

Spec == Init /\ [][Next]_vars

SpecGraph == GraphInit /\ [][GraphNext]_vars

SpecAge == AgeInit /\ [][AgeNext]_vars

(***************************************************************************)
(* The claims                                                              *)
(***************************************************************************)

\* C1: in both pipelines the discriminator's trainable flag is False at the
\* moment the adversarial composite's trainable set is fixed (its compile), so
\* a training step of the composite leaves the discriminator's weights as they
\* were.
C1_FrozenDiscriminator ==
    /\ compiled["adversarial"].done => ~compiled["adversarial"].disTrainable
    /\ lastStep.kind = "adversarial" => wD = lastStep.wDBefore

\* C2: every adversarial builder finds the flag False where it wires the
\* discriminator behind the generator and returns with the flag True again, so
\* a later training step of the discriminator alone updates its weights.
C2_FlagRestoredOnReturn ==
    /\ atReturn.done => atWire.done /\ ~atWire.flag /\ atReturn.flag
    /\ (atReturn.done /\ lastStep.kind = "discriminator") => wD = lastStep.wDBefore + 1

\* C3: build_stage2_generator's image output has shape 256x256x3, reached
\* through a 16x16x512 encoding and a 16x16x640 concatenation.
C3_Stage2OutputShape ==
    call = "build_stage2_generator" =>
        /\ ret.encoded.ok /\ ret.encoded.shape = <<16, 16, 512>>
        /\ ret.concat.ok /\ ret.concat.shape = <<16, 16, 640>>
        /\ ret.outputs[1].ok /\ ret.outputs[1].shape = <<256, 256, 3>>

\* C4: build_stage1_generator's image output has shape 64x64x3: 128 + 100
\* values projected to 16384, reshaped to 4x4x1024, doubled four times with
\* 512, 256, 128, 64 channels, then reduced to 3 channels; and every
\* UpSamplingBlock doubles the height and the width of the map it is given.
C4_Stage1OutputShape ==
    /\ call = "build_stage1_generator" =>
        /\ ret.concat.ok /\ ret.concat.shape = <<228>>
        /\ ret.reshaped.ok /\ ret.reshaped.shape = <<4, 4, 1024>>
        /\ \A i \in 1..4 : ret.ups[i].ok
        /\ [i \in 1..4 |-> ret.ups[i].shape]
             = <<(<<8, 8, 512>>), (<<16, 16, 256>>), (<<32, 32, 128>>), (<<64, 64, 64>>)>>
        /\ ret.outputs[1].ok /\ ret.outputs[1].shape = <<64, 64, 3>>
    /\ call = "UpSamplingBlock" =>
        /\ ret.ok
        /\ ret.shape[1] = 2 * x.shape[1]
        /\ ret.shape[2] = 2 * x.shape[2]

C4_Witness ==
    /\ call = "build_stage1_generator"
    /\ ret.outputs[1].ok
    /\ ret.outputs[1].shape = <<64, 64, 3>>

\* C5: residual_block returns a map of the shape of its HxWx512 input, and so
\* do four residual blocks in a row.
C5_ResidualKeepsShape ==
    (call = "residual_block" /\ x.shape[3] = 512) =>
        /\ ret.ok
        /\ ret.shape = x.shape
        /\ LET r4 == residual_block(residual_block(residual_block(ret)))
           IN  r4.ok /\ r4.shape = x.shape

C5_Witness ==
    /\ call = "residual_block"
    /\ x.shape = <<18, 16, 512>>
    /\ ret.ok
    /\ ret.shape = <<18, 16, 512>>

\* C6: on the 256-wide projection conditioning_augmentation takes columns
\* 0..127 as mean and 128..255 as log_sigma, two disjoint halves covering every
\* column, and returns a 128-wide vector, half the projection's width, in
\* build_ca_model, build_stage1_generator and build_stage2_generator alike.
C6_ConditioningHalves ==
    /\ (call = "conditioning_augmentation" /\ v.shape = <<256>>) =>
        /\ mean_cols(v) = 0..127
        /\ log_sigma_cols(v) = 128..255
        /\ mean_cols(v) \cap log_sigma_cols(v) = {}
        /\ mean_cols(v) \cup log_sigma_cols(v) = 0..255
        /\ ret.ok
        /\ ret.shape = <<128>>
    /\ call \in {"build_ca_model", "build_stage1_generator", "build_stage2_generator"} =>
        /\ ret.projected.ok /\ ret.projected.shape = <<256>>
        /\ ret.c.ok /\ ret.c.shape = <<128>>
        /\ 2 * ret.c.shape[1] = ret.projected.shape[1]

C6_Witness ==
    /\ call = "conditioning_augmentation"
    /\ v.shape = <<256>>
    /\ ret.ok
    /\ ret.shape = <<128>>

\* The years the calendar is consulted for.
RefYears == {1} \cup {y + d : y \in BirthYears, d \in {-1, 0, 1}}

\* Day `ordinal` falls in month m of year y.
InMonth(ordinal, y, m) ==
    /\ Ordinal(y, m, 1) <= ordinal
    /\ ordinal < (IF m = 12 THEN Ordinal(y + 1, 1, 1) ELSE Ordinal(y, m + 1, 1))

\* The year and the month day `ordinal` falls in, found from the calendar.
RefDate(ordinal) ==
    LET y == CHOOSE yy \in RefYears :
                 DaysBeforeYear(yy) < ordinal /\ ordinal <= DaysBeforeYear(yy + 1)
        m == CHOOSE mm \in 1..12 : InMonth(ordinal, y, mm)
    IN  <<y, m>>

RefAge(photo_date, dob2) ==
    LET ym == RefDate(Max(int(dob2) - 366, 1))
    IN  IF ym[2] \in 1..6 THEN photo_date - ym[1] ELSE photo_date - ym[1] - 1

\* C7: compute_age(photo_date, dob) is photo_date - birth_year for a birth
\* month January..June and photo_date - birth_year - 1 for July..December,
\* the birth date being day max(int(dob) - 366, 1) of the calendar; load_data
\* returns, at each index, the row's path and the age of the row's dates.
C7_ComputeAge ==
    /\ call = "compute_age" =>
        LET ym == RefDate(Max(int(ret.dob2) - 366, 1))
        IN  /\ ym[2] \in 1..6 => ret.age = ret.photo_date - ym[1]
            /\ ym[2] \in 7..12 => ret.age = ret.photo_date - ym[1] - 1
    /\ loaded =>
        /\ Len(images) = Len(metadata.full_path)
        /\ Len(ages_list) = Len(metadata.full_path)
        /\ \A i \in 1..Len(metadata.full_path) :
             /\ images[i] = metadata.full_path[i][1]
             /\ ages_list[i] = RefAge(metadata.photo_taken[i], metadata.dob[i])

C7_Witness ==
    /\ call = "compute_age"
    /\ InMonth(Max(int(ret.dob2) - 366, 1), 2000, 7)
    /\ ret.age = ret.photo_date - 2001
    /\ loaded
    /\ Len(ages_list) = 2
    /\ ages_list[1] # ages_list[2]

\* C8: the probability build_stage1_discriminator returns is computed from
\* both inputs: from the image, and from the conditioning map through the
\* concatenation and the 1x1 convolution.
C8_ProbabilityUsesConditioning ==
    call = "build_stage1_discriminator" =>
        /\ ret.concat.ok /\ ret.concat.shape = <<4, 4, 640>>
        /\ "input_layer1" \in ret.outputs[1].deps
        /\ "input_layer2" \in ret.outputs[1].deps
        /\ "Conv2D@148" \in ret.outputs[1].deps

\* C9: residual_block's output is computed from its input and from the
\* parameters of both of its convolutions, the second convolution taking the
\* first stage's output.
C9_ResidualUsesBothConvolutions ==
    (call = "residual_block" /\ x.shape[3] = 512) =>
        {"inputs", "Conv2D@240", "Conv2D@244"} \subseteq ret.deps

\* C10: in the Age-cGAN pipeline the generator's output has the shape of the
\* discriminator's image input, 64x64x3, so that adversarial() builds; and in
\* the discriminator the tiled label has the height and width of the first
\* convolution's 32x32x64 output.
C10_AgeShapesAgree ==
    /\ call = "generator" =>
        /\ ret.reshaped.ok /\ ret.reshaped.shape = <<8, 8, 256>>
        /\ ret.outputs[1].ok /\ ret.outputs[1].shape = <<64, 64, 3>>
    /\ call = "discriminator" =>
        /\ ret.image.shape = <<64, 64, 3>>
        /\ ret.conv1.ok /\ ret.conv1.shape = <<32, 32, 64>>
        /\ ret.tiled.ok /\ ret.tiled.shape = <<32, 32, 6>>
    /\ call = "adversarial" =>
        /\ ret.reconstructed.ok
        /\ ret.reconstructed.shape = discriminator.image.shape
        /\ ret.outputs[1].ok

====
